---- MODULE Spec2Model ----
(***************************************************************************)
(* UserOAuthRefreshList (web/src/elements/oauth/UserRefreshList.ts): the   *)
(* table of a user's OAuth refresh grants.  The component supplies         *)
(* apiEndpoint(), columns() and row() to the generic Table base class and  *)
(* a delete closure to each row's ak-forms-delete element.  The model      *)
(* holds the component's fields, the calls it has made and their requests, *)
(* the rows the table currently shows, and the grants stored behind the    *)
(* REST API.                                                               *)
(*                                                                         *)
(* Optional values (userId?, pk?, expires?) are sequences of length 0 or   *)
(* 1: <<>> is undefined, <<v>> is the value v.  Text is a sequence of      *)
(* string pieces, so that joining and formatting are computed.             *)
(***************************************************************************)
EXTENDS Integers, Sequences, FiniteSets, TLC

VARIABLES userId, order, page, calls, rows, rendered, store

vars == <<userId, order, page, calls, rows, rendered, store>>

\* ---------------------------------------------------------------- bounds
MaxPk == 1          \* grants with a pk have pk 0..MaxPk
MaxCalls == 3       \* calls of apiEndpoint and of delete closures in a run

\* ------------------------------------------------------------- constants
PAGE_SIZE == 20

None == <<>>
Some(v) == <<v>>

UserIds == {None, Some("1")}
Pages == {1, 2}
ScopeNames == <<"openid", "email", "profile">>

Min(a, b) == IF a < b THEN a ELSE b

\* ------------------------------------------------ ExpiringBaseGrantModel
\* A grant the API can hold: pk and expires are optional in the generated
\* model type, provider is a nested object, scope a list of strings.
Grant(k) ==
    [pk |-> Some(k),
     provider |-> [name |-> IF k % 2 = 0 THEN "grafana" ELSE "gitlab"],
     expires |-> IF k = 1 THEN None ELSE Some(10 - k),
     scope |-> SubSeq(ScopeNames, 1, Min(k + 1, Len(ScopeNames))),
     user |-> IF k % 2 = 0 THEN "2" ELSE "1"]

GrantNoPk ==
    [pk |-> None,
     provider |-> [name |-> "vault"],
     expires |-> Some(5),
     scope |-> <<>>,
     user |-> "1"]

Grants == {Grant(k) : k \in 0..MaxPk} \cup {GrantNoPk}

\* ------------------------------------------------------------ i18n, lit
\* t`...` of @lingui/macro: the message of the active catalogue for a
\* message id.
t(msgid) == [msgid |-> msgid]

\* html`${value}`: a text binding shows nothing for undefined and the
\* value's text otherwise.
html(value) == IF value = None THEN <<>> ELSE value[1]

\* Date.prototype.toLocaleString: the date formatted for the locale.
toLocaleString(date) == <<"locale-date:", ToString(date)>>

\* value?.toLocaleString(): undefined when the value is undefined.
OptionalToLocaleString(value) ==
    IF value = None THEN None ELSE Some(toLocaleString(value[1]))

\* pk || 0: the right operand when the left one is falsy (undefined or 0).
OrZero(value) == IF value = None \/ value[1] = 0 THEN 0 ELSE value[1]

\* Variant of join: sep after every element.
RECURSIVE joinTrailing(_, _)
joinTrailing(items, sep) ==
    IF Len(items) = 0 THEN <<>>
    ELSE <<items[1], sep>> \o joinTrailing(Tail(items), sep)

\* Array.prototype.join(sep): the elements with sep between neighbours.
RECURSIVE join(_, _)
join(items, sep) ==
    IF Len(items) = 0 THEN <<>>
    ELSE IF Len(items) = 1 THEN <<items[1]>>
    ELSE <<items[1], sep>> \o join(Tail(items), sep)

\* --------------------------------------------------- promise outcomes
\* What a request's promise settles with: the page of results, or an error.
Failure(error) == [ok |-> FALSE, results |-> <<>>, error |-> error]
Success(results) == [ok |-> TRUE, results |-> results, error |-> ""]

\* ------------------------------------------------- UserOAuthRefreshList
\* A sort order is a field name, with a leading "-" piece when descending.
InitialOrder == <<"-", "expires">>

OrderField(o) == IF o[1] = "-" THEN o[2] ELSE o[1]
OrderDescending(o) == o[1] = "-"

\* Variants of apiEndpoint: the page argument dropped; the user filter kept
\* from the call before.
apiEndpointFirstPage(p) ==
    <<[endpoint |-> "oauth2RefreshTokensList",
       user |-> userId,
       ordering |-> <<"expires">>,
       page |-> 1,
       pageSize |-> PAGE_SIZE]>>

apiEndpointShared(p) ==
    <<[endpoint |-> "oauth2RefreshTokensList",
       user |-> IF Len(calls) = 0 THEN userId ELSE calls[Len(calls)].user,
       ordering |-> <<"expires">>,
       page |-> p,
       pageSize |-> PAGE_SIZE]>>

\* apiEndpoint(page): the requests the call issues, in order.
apiEndpoint(p) ==
    <<[endpoint |-> "oauth2RefreshTokensList",
       user |-> userId,
       ordering |-> <<"expires">>,
       page |-> p,
       pageSize |-> PAGE_SIZE]>>

\* Variant of apiEndpointReturn: a rejection caught and turned into an
\* empty page.
apiEndpointReturnCaught(result) ==
    IF result.ok THEN result ELSE Success(<<>>)

\* The promise apiEndpoint returns is the list request's own promise.
apiEndpointReturn(result) == result

columns ==
    <<[title |-> <<t("Provider")>>, orderBy |-> Some(t("provider"))],
      [title |-> <<t("Expires")>>, orderBy |-> Some(t("expires"))],
      [title |-> <<t("Scopes")>>, orderBy |-> Some(t("scope"))],
      [title |-> <<>>, orderBy |-> None]>>

\* The closure handed to ak-forms-delete as .delete: it captures item.
DeleteClosure(item) == [item |-> item]

\* Variant of deleteCallback: the grant is revoked through an update.
deleteCallbackUpdate(closure) ==
    <<[endpoint |-> "oauth2RefreshTokensUpdate",
       id |-> OrZero(closure.item.pk)]>>

\* Invoking the closure: the requests it issues, in order.
deleteCallback(closure) ==
    <<[endpoint |-> "oauth2RefreshTokensDelete",
       id |-> OrZero(closure.item.pk)]>>

\* Variant of deleteCallbackReturn: a rejection caught and reported as done.
deleteCallbackReturnCaught(result) ==
    IF result.ok THEN result ELSE Success(<<>>)

\* The promise the closure returns is the delete request's own promise.
deleteCallbackReturn(result) == result

\* Variant of row: the expires and scope cells swapped.
rowSwapped(item) ==
    <<[field |-> Some("provider"),
       text |-> html(Some(<<item.provider.name>>)),
       delete |-> None],
      [field |-> Some("scope"),
       text |-> html(Some(join(item.scope, ", "))),
       delete |-> None],
      [field |-> Some("expires"),
       text |-> html(OptionalToLocaleString(item.expires)),
       delete |-> None],
      [field |-> None,
       text |-> <<t("Delete Refresh Code")>>,
       delete |-> Some(DeleteClosure(item))]>>

\* row(item): one cell per column; field is the item's field the cell reads.
row(item) ==
    <<[field |-> Some("provider"),
       text |-> html(Some(<<item.provider.name>>)),
       delete |-> None],
      [field |-> Some("expires"),
       text |-> html(OptionalToLocaleString(item.expires)),
       delete |-> None],
      [field |-> Some("scope"),
       text |-> html(Some(join(item.scope, ", "))),
       delete |-> None],
      [field |-> None,
       text |-> <<t("Delete Refresh Code")>>,
       delete |-> Some(DeleteClosure(item))]>>

\* ------------------------------------------------------ REST API server
ExpiresKey(g) == IF g.expires = None THEN 0 ELSE g.expires[1]

RECURSIVE SortByExpires(_, _)
SortByExpires(S, descending) ==
    IF S = {} THEN <<>>
    ELSE LET first == CHOOSE g \in S : \A h \in S :
                          IF descending THEN ExpiresKey(g) >= ExpiresKey(h)
                          ELSE ExpiresKey(g) <= ExpiresKey(h)
         IN <<first>> \o SortByExpires(S \ {first}, descending)

\* GET oauth2/refresh_tokens/: filter by user, order, cut the page out.
ListResponse(req) ==
    LET matching == {g \in store : req.user = None \/ g.user = req.user[1]}
        sorted == SortByExpires(matching, OrderDescending(req.ordering))
        first == (req.page - 1) * req.pageSize + 1
        last == Min(req.page * req.pageSize, Len(sorted))
    IN IF req.page > 1 /\ first > Len(sorted) THEN Failure("404")
       ELSE Success(SubSeq(sorted, first, last))

\* DELETE oauth2/refresh_tokens/{id}/: the grants the request names.
Named(req) == {g \in store : g.pk = Some(req.id)}

\* ------------------------------------------------------------ call log
\* after is the delete call a refresh follows, 0 for a fetch of the page.
ListCall(p, after) ==
    [kind |-> "list", after |-> after, page |-> p, item |-> None,
     user |-> userId, reqs |-> apiEndpoint(p),
     status |-> "sent", result |-> None, delivered |-> None]

DeleteCall(closure, item) ==
    [kind |-> "delete", after |-> 0, page |-> 0, item |-> Some(item),
     user |-> userId, reqs |-> deleteCallback(closure),
     status |-> "sent", result |-> None, delivered |-> None]

\* Calls made so far, plus one refresh for each delete not yet settled.
Committed ==
    Len(calls) + Cardinality({i \in 1..Len(calls) :
                    calls[i].kind = "delete" /\ calls[i].status # "settled"})

\* Table.render: one row(item) per item of the response.
RenderRows(results) ==
    [i \in 1..Len(results) |-> [item |-> results[i], cells |-> row(results[i])]]

SeqRange(s) == {s[i] : i \in 1..Len(s)}

\* ---------------------------------------------------------------- Init
Init ==
    /\ userId \in UserIds
    /\ order = InitialOrder
    /\ page = 1
    /\ calls = <<>>
    /\ rows = <<>>
    /\ rendered = {}
    /\ store \in {Grants, Grants \ {Grant(0)}}

\* ------------------------------------------------------------- actions
\* The parent sets the userId property.
SetUserId(u) ==
    /\ u # userId
    /\ userId' = u
    /\ UNCHANGED <<order, page, calls, rows, rendered, store>>

\* Table.fetch after the first update or a page change.
Fetch(p) ==
    /\ Committed < MaxCalls
    /\ page' = p
    /\ calls' = Append(calls, ListCall(p, 0))
    /\ UNCHANGED <<userId, order, rows, rendered, store>>

\* The user confirms the delete form of row i: its closure runs.
ConfirmDelete(i) ==
    /\ Committed + 2 <= MaxCalls
    /\ i \in 1..Len(rows)
    /\ LET cell == rows[i].cells[Len(rows[i].cells)]
       IN /\ cell.delete # None
          /\ calls' = Append(calls, DeleteCall(cell.delete[1], rows[i].item))
    /\ UNCHANGED <<userId, order, page, rows, rendered, store>>

Settle(i, result) ==
    calls' = [calls EXCEPT ![i].status = "processed", ![i].result = Some(result)]

\* The server answers a list request.
ServerList(i) ==
    /\ i \in 1..Len(calls)
    /\ calls[i].status = "sent"
    /\ Len(calls[i].reqs) > 0
    /\ calls[i].reqs[1].endpoint = "oauth2RefreshTokensList"
    /\ Settle(i, ListResponse(calls[i].reqs[1]))
    /\ UNCHANGED <<userId, order, page, rows, rendered, store>>

\* The server answers a delete request: 204 and the grant is gone, or 404.
ServerDelete(i) ==
    /\ i \in 1..Len(calls)
    /\ calls[i].status = "sent"
    /\ Len(calls[i].reqs) > 0
    /\ calls[i].reqs[1].endpoint = "oauth2RefreshTokensDelete"
    /\ LET named == Named(calls[i].reqs[1])
       IN /\ store' = store \ named
          /\ Settle(i, IF named = {} THEN Failure("404") ELSE Success(<<>>))
    /\ UNCHANGED <<userId, order, page, rows, rendered>>

\* A request is lost before it reaches the server.
NetworkFail(i) ==
    /\ i \in 1..Len(calls)
    /\ calls[i].status = "sent"
    /\ Len(calls[i].reqs) > 0
    /\ Settle(i, Failure("network"))
    /\ UNCHANGED <<userId, order, page, rows, rendered, store>>

\* Table.fetch's continuation: a fulfilled promise replaces the rows, a
\* rejected one leaves them.
ListSettled(i) ==
    /\ i \in 1..Len(calls)
    /\ calls[i].kind = "list" /\ calls[i].status = "processed"
    /\ LET got == apiEndpointReturn(calls[i].result[1])
       IN /\ calls' = [calls EXCEPT ![i].status = "settled",
                                    ![i].delivered = Some(got)]
          /\ rows' = IF got.ok THEN RenderRows(got.results) ELSE rows
          /\ rendered' = IF got.ok THEN rendered \cup SeqRange(got.results)
                         ELSE rendered
    /\ UNCHANGED <<userId, order, page, store>>

\* DeleteForm.confirm's continuation: a fulfilled promise closes the form
\* and refreshes the table, which fetches its current page again.
DeleteSettled(i) ==
    /\ i \in 1..Len(calls)
    /\ calls[i].kind = "delete" /\ calls[i].status = "processed"
    /\ LET got == deleteCallbackReturn(calls[i].result[1])
           done == [calls EXCEPT ![i].status = "settled",
                                 ![i].delivered = Some(got)]
       IN calls' = IF got.ok THEN Append(done, ListCall(page, i))
                   ELSE done
    /\ UNCHANGED <<userId, order, page, rows, rendered, store>>

Next ==
    \/ \E u \in UserIds : SetUserId(u)
    \/ \E p \in Pages : Fetch(p)
    \/ \E i \in 1..Len(rows) : ConfirmDelete(i)
    \/ \E i \in 1..Len(calls) : ServerList(i)
    \/ \E i \in 1..Len(calls) : ServerDelete(i)
    \/ \E i \in 1..Len(calls) : NetworkFail(i)
    \/ \E i \in 1..Len(calls) : ListSettled(i)
    \/ \E i \in 1..Len(calls) : DeleteSettled(i)

Spec == Init /\ [][Next]_vars

\* Every request sent is answered or lost, and every settled promise runs
\* its continuation: the network and the event loop do not stall.
Progress ==
    \E i \in 1..Len(calls) :
        ServerList(i) \/ ServerDelete(i) \/ ListSettled(i) \/ DeleteSettled(i)

FairSpec == Spec /\ WF_vars(Progress)

\* ---------------------------------------------------------- properties
ListCalls == {i \in 1..Len(calls) : calls[i].kind = "list"}
DeleteCalls == {i \in 1..Len(calls) : calls[i].kind = "delete"}
Shown == {rows[i].item : i \in 1..Len(rows)}
Settled(i) == calls[i].status = "settled"
Fulfilled(i) == Settled(i) /\ calls[i].delivered[1].ok
Rejected(i) == Settled(i) /\ ~calls[i].delivered[1].ok

\* C1: every delete request carries the pk of the grant of the row whose
\* delete form was confirmed, also when that pk is absent or 0.
C1_DeleteIdIsRowPk ==
    \A i \in DeleteCalls :
        \A k \in 1..Len(calls[i].reqs) :
            Some(calls[i].reqs[k].id) = calls[i].item[1].pk

\* C2: each apiEndpoint(page) issues exactly one list request, with the
\* page it was called with, PAGE_SIZE, and the userId of the time of the
\* call as user filter (none when unset); the caller gets that request's
\* result.
C2_ListRequestCarriesArguments ==
    \A i \in ListCalls :
        /\ Len(calls[i].reqs) = 1
        /\ calls[i].reqs[1].endpoint = "oauth2RefreshTokensList"
        /\ calls[i].reqs[1].page = calls[i].page
        /\ calls[i].reqs[1].pageSize = PAGE_SIZE
        /\ calls[i].reqs[1].user = calls[i].user
        /\ Settled(i) => calls[i].delivered = calls[i].result

\* A settled fetch of page 2 made while userId was unset, userId set since.
C2_Witness ==
    \E i \in ListCalls :
        /\ Settled(i)
        /\ calls[i].page = 2
        /\ calls[i].user = None
        /\ userId # None

\* C3: the component only lists and deletes; the stored grants change only
\* when a delete request is answered, which removes at most the one grant
\* the request names.
C3_ReadOnlyExceptDelete ==
    [][/\ \A i \in 1..Len(calls') : \A k \in 1..Len(calls'[i].reqs) :
            calls'[i].reqs[k].endpoint \in
                {"oauth2RefreshTokensList", "oauth2RefreshTokensDelete"}
       /\ store' # store =>
            \E i \in DeleteCalls :
                /\ calls[i].status = "sent"
                /\ calls'[i].status = "processed"
                /\ store' \subseteq store
                /\ Cardinality(store \ store') = 1
                /\ \A g \in store \ store' :
                       g.pk = Some(calls[i].reqs[1].id)]_vars

\* A grant that was listed and shown has been deleted and the table has
\* been filled again since.
C3_Witness ==
    /\ \E g \in rendered : g \notin store
    /\ \E i \in DeleteCalls : Fulfilled(i)
    /\ \E j \in ListCalls : calls[j].after # 0 /\ Fulfilled(j)

\* The fulfilled delete calls that named grant g, and their refreshes.
DeletesOf(g) ==
    {i \in DeleteCalls : Fulfilled(i) /\ g.pk = Some(calls[i].reqs[1].id)}
RefreshesOf(g) ==
    {j \in ListCalls : calls[j].after \in DeletesOf(g)}

\* A delete of grant g has completed and its refresh has not settled yet.
Awaited(g) ==
    \E i \in DeletesOf(g) :
        \A j \in ListCalls : calls[j].after = i => ~Settled(j)

C5_FailurePropagates ==
    [][\A i \in 1..Len(calls) :
          (/\ calls[i].status = "processed"
           /\ calls'[i].status = "settled"
           /\ ~calls[i].result[1].ok)
          => /\ calls'[i].delivered = calls[i].result
             /\ Len(calls') = Len(calls)
             /\ userId' = userId
             /\ order' = order]_vars

\* A list call and a delete call have both been rejected.
C5_Witness ==
    /\ \E i \in ListCalls : Rejected(i)
    /\ \E i \in DeleteCalls : Rejected(i)

C7_DeleteOnlyOfRendered ==
    \A i \in DeleteCalls :
        /\ Len(calls[i].reqs) = 1
        /\ calls[i].item[1] \in rendered
        /\ \E g \in rendered : g.pk = Some(calls[i].reqs[1].id)

\* C8: the ordering of every list request names the same field in the same
\* direction as the component's order field.
C8_OrderingAgreesWithOrder ==
    \A i \in ListCalls :
        \A k \in 1..Len(calls[i].reqs) :
            /\ OrderField(calls[i].reqs[k].ordering) = OrderField(order)
            /\ OrderDescending(calls[i].reqs[k].ordering)
                   = OrderDescending(order)

\* C9: a row has as many cells as there are columns, four, in the columns'
\* order: provider, expires, scopes, then the cell with the delete control.
C9_CellsMatchColumns ==
    \A i \in 1..Len(rows) :
        LET cells == rows[i].cells
        IN /\ Len(cells) = Len(columns)
           /\ Len(cells) = 4
           /\ <<cells[1].field, cells[2].field, cells[3].field>>
                = <<Some("provider"), Some("expires"), Some("scope")>>
           /\ \A j \in 1..3 :
                /\ columns[j].orderBy = Some(t(cells[j].field[1]))
                /\ cells[j].delete = None
           /\ columns[4].orderBy = None
           /\ cells[4].field = None
           /\ cells[4].delete # None

\* A page of at least two rows is shown.
C9_Witness == Len(rows) >= 2

\* text is the pieces of scope, in order, with ", " between neighbours.
JoinedByComma(text, scope) ==
    /\ Len(text) = IF Len(scope) = 0 THEN 0 ELSE 2 * Len(scope) - 1
    /\ \A k \in 1..Len(scope) : text[2 * k - 1] = scope[k]
    /\ \A k \in 1..(Len(scope) - 1) : text[2 * k] = ", "

\* C10: the first cell is the provider's name, the second the expiry as a
\* locale string, empty when the grant has none, the third the scopes in
\* order joined by ", ".
C10_CellsShowFields ==
    \A i \in 1..Len(rows) :
        LET item == rows[i].item
            cells == rows[i].cells
        IN /\ cells[1].text = <<item.provider.name>>
           /\ item.expires = None => cells[2].text = <<>>
           /\ item.expires # None =>
                cells[2].text = <<"locale-date:", ToString(item.expires[1])>>
           /\ JoinedByComma(cells[3].text, item.scope)

\* Rows are shown for a grant without expiry, one without scopes, one with
\* a single scope and one with several.
C10_Witness ==
    /\ \E g \in Shown : g.expires = None
    /\ \E g \in Shown : g.expires # None
    /\ \E g \in Shown : Len(g.scope) = 0
    /\ \E g \in Shown : Len(g.scope) = 1
    /\ \E g \in Shown : Len(g.scope) >= 2

====
